---- MODULE Spec2Model ----
(***************************************************************************)
(* lfd_nr allocation of the Reklamationen routes (neufeld-backend).        *)
(*                                                                         *)
(* The repository holds four variants of routes/reklamationen.js that      *)
(* allocate lfd_nr from the table lfd_nr_counter:                          *)
(*   V110  src/routes/reklamationen.js            (allocateLfdNumbers)     *)
(*   V111  src/routes/reklamationen - Kopie.js, second half (V1.1.1 FIX)   *)
(*   V112  src/routes/reklamationen - Kopie.js, first half (V1.1.2+)       *)
(*   P001  src/unnamed/part_001                   (allocateLfdNrRange)     *)
(* The variable version says which variant is deployed; it never changes.  *)
(*                                                                         *)
(* The database is PostgreSQL at READ COMMITTED: every statement sees the   *)
(* committed rows plus the writes of its own transaction; a row written by *)
(* an uncommitted transaction is locked until that transaction ends.       *)
(* An optional value is a sequence of length 0 or 1.                       *)
(***************************************************************************)
EXTENDS Integers, Sequences, FiniteSets, TLC

MaxItems == 2
MaxCtr == 2
MaxOps == 2

Versions == {"V110", "V111", "V112", "P001"}
Txns == {1, 2}
Filialen == {"F1", "F2"}
Jahre == {2025, 2026}
Keys == Filialen \X Jahre
(* the requests of one run concern the filialen of one year or the years of one
   filiale; where the counter is keyed by the year of datum the two differ by the
   names of the keys only, and the years of one filiale stand for both *)
Scopes == {Filialen \X {2025}, {"F1"} \X Jahre}
ScopesOf(v) == IF v = "V110" THEN Scopes ELSE {{"F1"} \X Jahre}
Ids == 1..MaxOps

VARIABLES version, scope, clockYear, counter, rekla, pos, nextId, tx, issuedMax, rolledBack, ops

vars == <<version, scope, clockYear, counter, rekla, pos, nextId, tx, issuedMax, rolledBack, ops>>

----------------------------------------------------------------------------
(* helpers *)

Max2(a, b) == IF a >= b THEN a ELSE b

RECURSIVE SetMax(_)
SetMax(S) == IF S = {} THEN 0
             ELSE LET x == CHOOSE y \in S : TRUE
                  IN Max2(x, SetMax(S \ {x}))

Range(s) == {s[i] : i \in 1..Len(s)}

RECURSIVE SeqsUpTo(_, _)
SeqsUpTo(S, n) == IF n = 0 THEN {<<>>}
                  ELSE LET shorter == SeqsUpTo(S, n - 1)
                       IN shorter \cup {Append(s, x) : s \in {q \in shorter : Len(q) = n - 1}, x \in S}

(* a proposed position declares a lfd_nr (1..MaxCtr) or none (0); one list declares
   a number below 1 *)
Declared == 0..MaxCtr
PositionLists == SeqsUpTo(Declared, MaxItems) \cup {<<-1>>}

IdleTx == [pc |-> "idle", op |-> "none", id |-> 0, filiale |-> "", jahr |-> 0,
           pl |-> <<>>, key |-> <<>>, existing |-> {}, cnt |-> 0, snap |-> <<>>,
           mx |-> 0, pre |-> <<>>, start |-> 0, waited |-> FALSE, fresh |-> FALSE,
           wHdr |-> "none", wPos |-> FALSE, wCtr |-> <<>>, lockKey |-> <<>>]

----------------------------------------------------------------------------
(* what a statement of transaction t sees, and which rows are locked *)

VisRekla(t, id) ==
  IF tx[t].id = id /\ tx[t].wHdr \in {"ins", "upd"}
    THEN <<[filiale |-> tx[t].filiale, jahr |-> tx[t].jahr]>>
  ELSE IF tx[t].id = id /\ tx[t].wHdr = "del" THEN <<>>
  ELSE rekla[id]

VisPos(t, id) == IF tx[t].id = id /\ tx[t].wPos THEN <<>> ELSE pos[id]

(* variant: the floor query has no filter on filiale and year *)
MaxLfdAllKeys(t, k) ==
  SetMax(UNION {Range(VisPos(t, id)) : id \in {i \in Ids : VisRekla(t, i) # <<>>}})

(* SELECT COALESCE(MAX(lfd_nr), 0) FROM reklamation_positionen WHERE lfd_nr IS NOT NULL
   AND reklamation_id IN (SELECT id FROM reklamationen WHERE filiale = $1
   AND EXTRACT(YEAR FROM datum) = $2) *)
MaxLfd(t, k) ==
  SetMax(UNION {Range(VisPos(t, id)) :
                  id \in {i \in Ids : /\ VisRekla(t, i) # <<>>
                                      /\ VisRekla(t, i)[1].filiale = k[1]
                                      /\ VisRekla(t, i)[1].jahr = k[2]}})

(* variants of the row lock: none at all, and one lock for the whole table *)
KeyFreeNoLock(t, k) == TRUE

KeyFreeTableLock(t, k) == \A u \in Txns \ {t} : tx[u].lockKey = <<>>

(* variant: a call yields to every other call that waits for a counter row *)
KeyFreeYielding(t, k) == \A u \in Txns \ {t} : tx[u].pc # "waitlock"

(* the row of lfd_nr_counter with key k is not locked by another transaction *)
KeyFree(t, k) == \A u \in Txns \ {t} : tx[u].lockKey # <<k>>

(* variant: the UPDATE of the header does not wait for the row lock *)
HdrFreeNoLock(t, id) == TRUE

HdrFree(t, id) == \A u \in Txns \ {t} : ~(tx[u].id = id /\ tx[u].wHdr \in {"upd", "del"})

PosFree(t, id) == \A u \in Txns \ {t} : ~(tx[u].id = id /\ tx[u].wPos /\ pos[id] # <<>>)

----------------------------------------------------------------------------
(* the allocators, one per variant; cur is the locked counter value, mx the
   MAX(lfd_nr) the statement read *)

(* V110: last_value = locked.last_value + $3; start = old_last + 1 *)
allocateLfdNumbers(cur, count) == [start |-> cur + 1, last |-> cur + count]

(* V111: last_value = GREATEST(locked.last_value, mx.max_lfd) + $3 *)
allocateLfdNumbersFix(cur, mx, count) ==
  LET base_last == Max2(cur, mx)
  IN [start |-> base_last + 1, last |-> base_last + count]

(* variant: the block starts above the persisted maximum only *)
allocateLfdNrBlockFromMax(currentVal, maxLfd, count) ==
  [start |-> maxLfd + 1, last |-> maxLfd + count]

(* V112: base = Math.max(currentVal, maxLfd); newVal = base + count; return base + 1 *)
allocateLfdNrBlock(currentVal, maxLfd, count) ==
  LET base == Max2(currentVal, maxLfd)
  IN [start |-> base + 1, last |-> base + count]

(* variant: the upsert does not add to an existing row *)
allocateLfdNrRangeInsertOnly(row, amount) ==
  [start |-> 1, last |-> amount]

(* P001: INSERT .. VALUES ($1,$2,$3) ON CONFLICT DO UPDATE SET last_nr = last_nr + $3
   RETURNING last_nr; start = lastNr - amount + 1 *)
allocateLfdNrRange(row, amount) ==
  LET lastNr == IF row = <<>> THEN amount ELSE row[1] + amount
  IN [start |-> lastNr - amount + 1, last |-> lastNr]

(* the year of the counter: getCurrentYear() in V110, the year of datum elsewhere *)
AllocJahr(j) == IF version = "V110" THEN clockYear ELSE j

(* a proposed position keeps its declared number *)
Keeps(n, existingLfdSet) ==
  IF version = "P001" THEN n # 0 ELSE n # 0 /\ n \in existingLfdSet

(* variant: the cursor of the insert loop is never advanced *)
AssignLfdNoAdvance(pl, existingLfdSet, next) ==
  [i \in 1..Len(pl) |-> IF Keeps(pl[i], existingLfdSet) THEN pl[i] ELSE next]

(* the insert loop: a kept number is used as declared, every other position takes
   the next number of the allocated block *)
RECURSIVE AssignLfd(_, _, _)
AssignLfd(pl, existingLfdSet, next) ==
  IF pl = <<>> THEN <<>>
  ELSE IF Keeps(Head(pl), existingLfdSet)
    THEN <<Head(pl)>> \o AssignLfd(Tail(pl), existingLfdSet, next)
    ELSE <<next>> \o AssignLfd(Tail(pl), existingLfdSet, next + 1)

(* per proposed position its kept number, or 0 when it needs a new one (keepNr / needsNew) *)
Classify(pl, existingLfdSet) ==
  [i \in 1..Len(pl) |-> IF Keeps(pl[i], existingLfdSet) THEN pl[i] ELSE 0]

(* variant: a number is requested for every proposed position *)
NewCountAll(pl, existingLfdSet) == Len(pl)

NewCount(pl, existingLfdSet) ==
  Cardinality({i \in 1..Len(pl) : ~Keeps(pl[i], existingLfdSet)})

AllocPc == IF version = "V111" THEN "alloc" ELSE "waitlock"

(* the years allocateLfdNumbers accepts *)
MinJahr == 2000
MaxJahr == 3000

(* variant: a call with count 0 goes on to the counter statements *)
AllocEntryNoSentinel(f, j, count) ==
  IF count < 0 THEN "commit" ELSE AllocPc

(* the argument checks at the head of allocate: the call throws ("threw"), returns
   the no-range value at once ("commit", nothing locked or written) or goes on to
   the counter statements.
   V110, V111: throw for an empty filiale or a jahr outside 2000..3000, then
               { start: null, end: null } for count <= 0;
   V112:       if (!count || count <= 0) return null, no other check;
   P001:       if (!filiale || !jahr || !amount || amount < 1) return [] *)
AllocEntry(f, j, count) ==
  IF version \in {"V110", "V111"}
    THEN IF f = "" \/ j < MinJahr \/ j > MaxJahr THEN "threw"
         ELSE IF count <= 0 THEN "commit" ELSE AllocPc
  ELSE IF version = "V112"
    THEN IF count <= 0 THEN "commit" ELSE AllocPc
  ELSE IF f = "" \/ j = 0 \/ count < 1 THEN "commit" ELSE AllocPc

----------------------------------------------------------------------------
Init ==
  /\ version \in Versions
  /\ scope \in ScopesOf(version)
  /\ clockYear = 2025
  /\ counter = [k \in Keys |-> <<>>]
  /\ rekla = [i \in Ids |-> <<>>]
  /\ pos = [i \in Ids |-> <<>>]
  /\ nextId = 1
  /\ tx = [t \in Txns |-> IdleTx]
  /\ issuedMax = [k \in Keys |-> 0]
  /\ rolledBack = <<>>
  /\ ops = 0

(* pool.connect(): a request takes a free client of the pool; the clients are
   interchangeable, so it takes the first free one *)
Connect(t) ==
  /\ ops < MaxOps
  /\ tx[t].pc = "idle"
  /\ \A u \in Txns : tx[u].pc = "idle" => t <= u

(* the server clock passes into the next year; only V1.1.0 reads the clock for the
   counter year (getCurrentYear()), elsewhere its passing changes nothing *)
NewYear ==
  /\ version = "V110"
  /\ clockYear + 1 \in {k[2] : k \in scope}
  /\ clockYear' = clockYear + 1
  /\ UNCHANGED <<version, scope, counter, rekla, pos, nextId, tx, issuedMax, rolledBack, ops>>

(* POST /: BEGIN, INSERT INTO reklamationen; n positions. The filialen are
   interchangeable: the one of the first reklamation is called F1. *)
PostBegin(t, f, j, n) ==
  /\ Connect(t)
  /\ nextId \in Ids
  /\ nextId = 1 => f = "F1"
  /\ version = "P001" => n >= 1
  /\ tx' = [tx EXCEPT ![t] =
              [IdleTx EXCEPT !.pc = AllocEntry(f, AllocJahr(j), n),
                             !.op = "post", !.id = nextId, !.filiale = f, !.jahr = j,
                             !.pl = [i \in 1..n |-> 0],
                             !.key = <<(<<f, AllocJahr(j)>>)>>,
                             !.waited = (n > 0 /\ ~KeyFree(t, <<f, AllocJahr(j)>>)),
                             !.fresh = (n > 0 /\ ~KeyFree(t, <<f, AllocJahr(j)>>)
                                          /\ counter[<<f, AllocJahr(j)>>] = <<>>),
                             !.cnt = n, !.wHdr = "ins"]]
  /\ nextId' = nextId + 1
  /\ ops' = ops + 1
  /\ UNCHANGED <<version, scope, clockYear, counter, rekla, pos, issuedMax, rolledBack>>

(* PUT /:id: BEGIN, UPDATE reklamationen .. WHERE id (waits for the row lock) *)
PutBegin(t, id, f, j) ==
  /\ Connect(t)
  /\ rekla[id] # <<>>
  /\ HdrFree(t, id)
  /\ tx' = [tx EXCEPT ![t] =
              [IdleTx EXCEPT !.pc = "read", !.op = "put", !.id = id,
                             !.filiale = f, !.jahr = j, !.wHdr = "upd"]]
  /\ ops' = ops + 1
  /\ UNCHANGED <<version, scope, clockYear, counter, rekla, pos, nextId, issuedMax, rolledBack>>

(* PUT /:id: SELECT lfd_nr of the reklamation, DELETE its positions, classify the
   proposed positions. P001 reads no existing numbers and deletes after allocating. *)
PutRead(t, pl) ==
  /\ tx[t].pc = "read"
  /\ version = "P001" => Len(pl) >= 1
  /\ version # "P001" => PosFree(t, tx[t].id)
  \* outside P001 a declared number below 1 is never in existingLfdSet and is
  \* classified like any other foreign number, so it is enumerated for P001 only
  /\ version # "P001" => \A i \in DOMAIN pl : pl[i] >= 0
  /\ LET existingLfdSet == IF version = "P001" THEN {} ELSE Range(pos[tx[t].id])
         newNeededCount == NewCount(pl, existingLfdSet)
     IN tx' = [tx EXCEPT ![t].pc = AllocEntry(tx[t].filiale, AllocJahr(tx[t].jahr),
                                                  newNeededCount),
                         ![t].pl = Classify(pl, existingLfdSet),
                         ![t].existing = existingLfdSet,
                         ![t].cnt = newNeededCount,
                         ![t].key = <<(<<tx[t].filiale, AllocJahr(tx[t].jahr)>>)>>,
                         ![t].waited = (newNeededCount > 0 /\
                                          ~KeyFree(t, <<tx[t].filiale, AllocJahr(tx[t].jahr)>>)),
                         ![t].fresh = (newNeededCount > 0 /\
                                         ~KeyFree(t, <<tx[t].filiale, AllocJahr(tx[t].jahr)>>) /\
                                         counter[<<tx[t].filiale, AllocJahr(tx[t].jahr)>>] = <<>>),
                         ![t].wPos = (version # "P001")]
  /\ UNCHANGED <<version, scope, clockYear, counter, rekla, pos, nextId, issuedMax, rolledBack, ops>>

(* V111, first statement and start of the second: INSERT .. SELECT MAX .. ON CONFLICT
   DO NOTHING creates the row from MAX(lfd_nr); with the row present, the second
   statement takes its snapshot (mx) before it waits for the row lock *)
AllocStart(t) ==
  /\ tx[t].pc = "alloc"
  /\ LET k == tx[t].key[1]
     IN IF counter[k] = <<>>
          THEN /\ KeyFree(t, k)
               /\ tx' = [tx EXCEPT ![t].pc = "waitlock",
                                   ![t].wCtr = <<MaxLfd(t, k)>>,
                                   ![t].lockKey = <<k>>]
          ELSE tx' = [tx EXCEPT ![t].pc = "waitlock", ![t].snap = <<MaxLfd(t, k)>>]
  /\ UNCHANGED <<version, scope, clockYear, counter, rekla, pos, nextId, issuedMax, rolledBack, ops>>

(* the counter value the locking statement reads, the MAX(lfd_nr) it uses and the
   block it computes (V110, V111, P001) *)
LockedValue(t) ==
  LET k == tx[t].key[1]
  IN IF tx[t].wCtr # <<>> THEN tx[t].wCtr[1]
     ELSE IF counter[k] # <<>> THEN counter[k][1] ELSE 0

ObservedMax(t) ==
  IF version \in {"V110", "P001"} THEN 0
  ELSE IF tx[t].snap # <<>> THEN tx[t].snap[1] ELSE MaxLfd(t, tx[t].key[1])

AllocResult(t) ==
  IF version = "V110" THEN allocateLfdNumbers(LockedValue(t), tx[t].cnt)
  ELSE IF version = "V111"
    THEN allocateLfdNumbersFix(LockedValue(t), ObservedMax(t), tx[t].cnt)
  ELSE allocateLfdNrRange(counter[tx[t].key[1]], tx[t].cnt)

(* ensure the counter row and lock it (INSERT .. ON CONFLICT DO NOTHING, SELECT ..
   FOR UPDATE); V110, V111 and P001 also update it in the same statement *)
AllocLock(t) ==
  /\ tx[t].pc = "waitlock"
  /\ LET k == tx[t].key[1]
         r == AllocResult(t)
     IN /\ KeyFree(t, k)
        /\ IF version = "V112"
             THEN tx' = [tx EXCEPT ![t].pc = "locked", ![t].wCtr = <<LockedValue(t)>>,
                                   ![t].lockKey = <<k>>, ![t].pre = counter[k]]
             ELSE /\ r.last <= MaxCtr
                  /\ tx' = [tx EXCEPT ![t].pc = "commit", ![t].wCtr = <<r.last>>,
                                      ![t].lockKey = <<k>>, ![t].pre = counter[k],
                                      ![t].start = r.start, ![t].mx = ObservedMax(t),
                                      ![t].snap = <<>>]
  /\ UNCHANGED <<version, scope, clockYear, counter, rekla, pos, nextId, issuedMax, rolledBack, ops>>

(* V112: SELECT MAX(lfd_nr), UPDATE lfd_nr_counter SET current_value = base + count *)
AllocUpdate(t) ==
  /\ tx[t].pc = "locked"
  /\ LET k == tx[t].key[1]
         maxLfd == MaxLfd(t, k)
         r == allocateLfdNrBlock(tx[t].wCtr[1], maxLfd, tx[t].cnt)
     IN /\ r.last <= MaxCtr
        /\ tx' = [tx EXCEPT ![t].pc = "commit", ![t].wCtr = <<r.last>>,
                            ![t].start = r.start, ![t].mx = maxLfd]
  /\ UNCHANGED <<version, scope, clockYear, counter, rekla, pos, nextId, issuedMax, rolledBack, ops>>

(* DELETE /:id: DELETE FROM reklamation_positionen (locks the position rows).
   V112 issues one autocommit DELETE FROM reklamationen (positions go with it). *)
DelBegin(t, id) ==
  /\ Connect(t)
  /\ rekla[id] # <<>>
  /\ PosFree(t, id)
  /\ IF version = "V112"
       THEN /\ HdrFree(t, id)
            /\ rekla' = [rekla EXCEPT ![id] = <<>>]
            /\ pos' = [pos EXCEPT ![id] = <<>>]
            /\ UNCHANGED tx
       ELSE /\ tx' = [tx EXCEPT ![t] = [IdleTx EXCEPT !.pc = "delhdr", !.op = "delete",
                                                        !.id = id, !.wPos = TRUE]]
            /\ UNCHANGED <<rekla, pos>>
  /\ ops' = ops + 1
  /\ UNCHANGED <<version, scope, clockYear, counter, nextId, issuedMax, rolledBack>>

(* DELETE /:id: DELETE FROM reklamationen WHERE id; rowCount 0 -> ROLLBACK, 404 *)
DelHeader(t) ==
  /\ tx[t].pc = "delhdr"
  /\ HdrFree(t, tx[t].id)
  /\ IF rekla[tx[t].id] # <<>>
       THEN tx' = [tx EXCEPT ![t].pc = "commit", ![t].wHdr = "del"]
       ELSE tx' = [tx EXCEPT ![t] = IdleTx]
  /\ UNCHANGED <<version, scope, clockYear, counter, rekla, pos, nextId, issuedMax, rolledBack, ops>>

(* allocate has returned a block to transaction t *)
AllocDone(t) == tx[t].pc = "commit" /\ tx[t].lockKey # <<>>

(* the rows a committing transaction leaves *)
CommittedRekla(t) ==
  IF tx[t].wHdr = "del" THEN [rekla EXCEPT ![tx[t].id] = <<>>]
  ELSE [rekla EXCEPT ![tx[t].id] = <<[filiale |-> tx[t].filiale, jahr |-> tx[t].jahr]>>]

(* variant: the new positions are added to the old ones (the DELETE of the old
   positions is not part of what the commit makes visible) *)
CommittedPosAppended(t) ==
  IF tx[t].op = "delete" THEN [pos EXCEPT ![tx[t].id] = <<>>]
  ELSE [pos EXCEPT ![tx[t].id] = @ \o AssignLfd(tx[t].pl, tx[t].existing, tx[t].start)]

CommittedPos(t) ==
  IF tx[t].op = "delete" THEN [pos EXCEPT ![tx[t].id] = <<>>]
  ELSE [pos EXCEPT ![tx[t].id] = AssignLfd(tx[t].pl, tx[t].existing, tx[t].start)]

(* variant: deleting a reklamation gives the counter row of its key back *)
CommittedCounterReset(t) ==
  IF tx[t].op = "delete"
    THEN [counter EXCEPT ![<<rekla[tx[t].id][1].filiale, rekla[tx[t].id][1].jahr>>] = <<>>]
  ELSE IF tx[t].wCtr # <<>> THEN [counter EXCEPT ![tx[t].key[1]] = tx[t].wCtr]
  ELSE counter

CommittedCounter(t) ==
  IF tx[t].wCtr # <<>> THEN [counter EXCEPT ![tx[t].key[1]] = tx[t].wCtr] ELSE counter

(* the position inserts and COMMIT *)
Commit(t) ==
  /\ tx[t].pc = "commit"
  /\ (version = "P001" /\ tx[t].op = "put") => PosFree(t, tx[t].id)
  /\ rekla' = CommittedRekla(t)
  /\ pos' = CommittedPos(t)
  /\ counter' = CommittedCounter(t)
  /\ issuedMax' = IF AllocDone(t)
                    THEN [issuedMax EXCEPT ![tx[t].key[1]] =
                            Max2(@, tx[t].start + tx[t].cnt - 1)]
                    ELSE issuedMax
  /\ rolledBack' = IF AllocDone(t) THEN <<>> ELSE rolledBack
  /\ tx' = [tx EXCEPT ![t] = IdleTx]
  /\ UNCHANGED <<version, scope, clockYear, nextId, ops>>

(* P001, POST / and PUT /:id: after COMMIT the handler reads the positions back with
   pool.query inside the same try block; when that query throws, the catch block
   issues ROLLBACK outside any transaction and answers 500 *)
CommitThenFail(t) ==
  /\ version = "P001"
  /\ tx[t].op \in {"post", "put"}
  /\ Commit(t)

(* variant: the counter update survives the ROLLBACK *)
RolledBackCounterKept(t) == CommittedCounter(t)

(* what ROLLBACK leaves of the counter table *)
RolledBackCounter(t) == counter

(* a statement of the transaction throws: catch, ROLLBACK, 500 *)
Fail(t) ==
  /\ tx[t].pc # "idle"
  /\ counter' = RolledBackCounter(t)
  /\ rolledBack' = IF AllocDone(t)
                     THEN <<tx[t].key[1], tx[t].start, tx[t].start + tx[t].cnt - 1>>
                     ELSE rolledBack
  /\ tx' = [tx EXCEPT ![t] = IdleTx]
  /\ UNCHANGED <<version, scope, clockYear, rekla, pos, nextId, issuedMax, ops>>

Next ==
  \/ NewYear
  \/ \E t \in Txns, k \in scope, n \in 0..MaxItems : PostBegin(t, k[1], k[2], n)
  \/ \E t \in Txns, id \in Ids, k \in scope : PutBegin(t, id, k[1], k[2])
  \/ \E t \in Txns, pl \in PositionLists : PutRead(t, pl)
  \/ \E t \in Txns : AllocStart(t)
  \/ \E t \in Txns : AllocLock(t)
  \/ \E t \in Txns : AllocUpdate(t)
  \/ \E t \in Txns, id \in Ids : DelBegin(t, id)
  \/ \E t \in Txns : DelHeader(t)
  \/ \E t \in Txns : Commit(t)
  \/ \E t \in Txns : CommitThenFail(t)
  \/ \E t \in Txns : Fail(t)

Spec == Init /\ [][Next]_vars

----------------------------------------------------------------------------
(* The handlers started with one reklamation in place: the state a committed
   POST / for filiale F1, datum in 2025 and one position leaves. *)
InitEdit ==
  /\ version \in Versions
  /\ scope \in ScopesOf(version)
  /\ clockYear = 2025
  /\ counter = [k \in Keys |-> IF k = <<"F1", 2025>> THEN <<1>> ELSE <<>>]
  /\ rekla = [i \in Ids |-> IF i = 1 THEN <<[filiale |-> "F1", jahr |-> 2025]>> ELSE <<>>]
  /\ pos = [i \in Ids |-> IF i = 1 THEN <<1>> ELSE <<>>]
  /\ nextId = 2
  /\ tx = [t \in Txns |-> IdleTx]
  /\ issuedMax = [k \in Keys |-> IF k = <<"F1", 2025>> THEN 1 ELSE 0]
  /\ rolledBack = <<>>
  /\ ops = 0

(* edits and deletes of the reklamationen in place *)
NextEdit ==
  \/ \E t \in Txns, id \in Ids, k \in scope : PutBegin(t, id, k[1], k[2])
  \/ \E t \in Txns, pl \in PositionLists : PutRead(t, pl)
  \/ \E t \in Txns : AllocStart(t)
  \/ \E t \in Txns : AllocLock(t)
  \/ \E t \in Txns : AllocUpdate(t)
  \/ \E t \in Txns, id \in Ids : DelBegin(t, id)
  \/ \E t \in Txns : DelHeader(t)
  \/ \E t \in Txns : Commit(t)
  \/ \E t \in Txns : CommitThenFail(t)
  \/ \E t \in Txns : Fail(t)

SpecEdit == InitEdit /\ [][NextEdit]_vars

----------------------------------------------------------------------------
(* The allocator called on its own: a caller opens a transaction, calls allocate
   with arguments of its choice (valid or not) and ends the transaction. *)

ArgFilialen == {"F1", ""}
ArgJahre == {1999, 2025}
ArgKeys == ArgFilialen \X ArgJahre
ArgCounts == (-1)..MaxItems

InitAlloc ==
  /\ version \in Versions
  /\ scope = {}
  /\ clockYear = 2025
  /\ counter = [k \in ArgKeys |-> <<>>]
  /\ rekla = [i \in Ids |-> <<>>]
  /\ pos = [i \in Ids |-> <<>>]
  /\ nextId = 1
  /\ tx = [t \in Txns |-> IdleTx]
  /\ issuedMax = [k \in ArgKeys |-> 0]
  /\ rolledBack = <<>>
  /\ ops = 0

(* BEGIN; allocate(client, f, j, count): the argument checks *)
CallAllocate(t, f, j, count) ==
  /\ Connect(t)
  /\ tx' = [tx EXCEPT ![t] =
              [IdleTx EXCEPT !.pc = AllocEntry(f, j, count), !.op = "alloc",
                             !.filiale = f, !.jahr = j, !.cnt = count,
                             !.key = <<(<<f, j>>)>>,
                             !.waited = (AllocEntry(f, j, count) \notin {"threw", "commit"}
                                           /\ ~KeyFree(t, <<f, j>>)),
                             !.fresh = (AllocEntry(f, j, count) \notin {"threw", "commit"}
                                          /\ ~KeyFree(t, <<f, j>>) /\ counter[<<f, j>>] = <<>>)]]
  /\ ops' = ops + 1
  /\ UNCHANGED <<version, scope, clockYear, counter, rekla, pos, nextId, issuedMax, rolledBack>>

(* a writer outside allocate removes the committed counter row of k. A call of
   V110, V111 or V112 that has passed its INSERT .. ON CONFLICT DO NOTHING with the
   row present finds no row in its locking statement; the upsert of P001 is one
   statement and creates the row again. *)
OutsideDelete(k) ==
  /\ counter[k] # <<>>
  /\ \A u \in Txns : tx[u].lockKey # <<k>>
  /\ counter' = [counter EXCEPT ![k] = <<>>]
  /\ tx' = [t \in Txns |->
              IF version # "P001" /\ tx[t].pc = "waitlock" /\ tx[t].key = <<k>>
                THEN [tx[t] EXCEPT !.pc = "norow", !.snap = <<>>]
                ELSE tx[t]]
  /\ UNCHANGED <<version, scope, clockYear, rekla, pos, nextId, issuedMax, rolledBack, ops>>

(* the locking statement finds no row.
   V110, V111: result.rows.length === 0 -> throw 'Counter-Update fehlgeschlagen';
   V112: currentVal = Number(lockRes.rows[0]?.current_value ?? 0), the UPDATE changes
         no row and its row count is not read: return base + 1 *)
LockMiss(t) ==
  /\ tx[t].pc = "norow"
  /\ IF version = "V112"
       THEN LET maxLfd == MaxLfd(t, tx[t].key[1])
                r == allocateLfdNrBlock(0, maxLfd, tx[t].cnt)
            IN tx' = [tx EXCEPT ![t].pc = "commit", ![t].start = r.start, ![t].mx = maxLfd]
       ELSE tx' = [tx EXCEPT ![t].pc = "threw"]
  /\ UNCHANGED <<version, scope, clockYear, counter, rekla, pos, nextId, issuedMax, rolledBack, ops>>

(* variant: the end of the transaction leaves its row lock in place *)
CallEndKeepsLock(t) ==
  /\ tx[t].pc \in {"commit", "threw"}
  /\ counter' = IF tx[t].pc = "commit" THEN CommittedCounter(t) ELSE RolledBackCounter(t)
  /\ tx' = [tx EXCEPT ![t] = [IdleTx EXCEPT !.lockKey = tx[t].lockKey]]
  /\ UNCHANGED <<version, scope, clockYear, rekla, pos, nextId, issuedMax, rolledBack, ops>>

(* the caller ends the transaction: COMMIT after a return, ROLLBACK after a throw *)
CallEnd(t) ==
  /\ tx[t].pc \in {"commit", "threw"}
  /\ counter' = IF tx[t].pc = "commit" THEN CommittedCounter(t) ELSE RolledBackCounter(t)
  /\ tx' = [tx EXCEPT ![t] = IdleTx]
  /\ UNCHANGED <<version, scope, clockYear, rekla, pos, nextId, issuedMax, rolledBack, ops>>

NextAlloc ==
  \/ \E t \in Txns, f \in ArgFilialen, j \in ArgJahre, c \in ArgCounts : CallAllocate(t, f, j, c)
  \/ \E t \in Txns : AllocStart(t)
  \/ \E t \in Txns : AllocLock(t)
  \/ \E t \in Txns : AllocUpdate(t)
  \/ \E k \in ArgKeys : OutsideDelete(k)
  \/ \E t \in Txns : LockMiss(t)
  \/ \E t \in Txns : CallEnd(t)
  \/ \E t \in Txns : Fail(t)

SpecAlloc == InitAlloc /\ [][NextAlloc]_vars

(* A statement that is not blocked is executed (the handler awaits each query), and
   a transaction that holds a counter row lock ends, by COMMIT or by ROLLBACK. *)
FairAlloc ==
  \A t \in Txns :
    /\ WF_vars(AllocStart(t))
    /\ WF_vars(AllocLock(t))
    /\ WF_vars(AllocUpdate(t))
    /\ WF_vars(LockMiss(t))
    /\ WF_vars(tx[t].lockKey # <<>> /\ (CallEnd(t) \/ Fail(t)))

SpecAllocFair == SpecAlloc /\ FairAlloc

----------------------------------------------------------------------------
(* notions the properties use *)

(* the (filiale, year of datum) a persisted reklamation belongs to *)
HdrKey(i) == <<rekla[i][1].filiale, rekla[i][1].jahr>>

(* the counter value of k, 0 without a row *)
CtrVal(row) == IF row = <<>> THEN 0 ELSE row[1]

(* the step of transaction t in which allocate returns its block *)
AllocStep(t) == tx[t].pc \in {"waitlock", "locked"} /\ tx'[t].pc = "commit"

(* the numbers of the block allocate returned to t *)
Block(t) == tx[t].start .. (tx[t].start + tx[t].cnt - 1)

(* a committing edit of t that leaves the reklamation in its (filiale, year) *)
EditInPlace(t) ==
  /\ tx[t].op = "put"
  /\ Commit(t)
  /\ HdrKey(tx[t].id) = <<tx[t].filiale, tx[t].jahr>>

----------------------------------------------------------------------------
(* C1 Uniqueness: in every committed state no two persisted positions of the same
   (filiale, year of datum) carry the same lfd_nr. *)
C1_Uniqueness ==
  \A i, j \in Ids : \A a \in DOMAIN pos[i], b \in DOMAIN pos[j] :
    (/\ rekla[i] # <<>>
     /\ rekla[j] # <<>>
     /\ HdrKey(i) = HdrKey(j)
     /\ <<i, a>> # <<j, b>>) => pos[i][a] # pos[j][b]

(* C2 No reuse after delete: a step that removes a reklamation, and a committed edit
   that allocates nothing (it only keeps or drops positions), leave every counter row
   as it is; and the block of every allocation lies above every number a committed
   allocation of the same key has issued before, whether or not the positions that
   carried those numbers still exist. *)
C2_NoReuseAfterDelete ==
  [][/\ \A id \in Ids : (rekla[id] # <<>> /\ rekla'[id] = <<>>) => counter' = counter
     /\ \A t \in Txns :
          (tx[t].op = "put" /\ ~AllocDone(t) /\ Commit(t)) => counter' = counter
     /\ \A t \in Txns :
          (AllocDone(t) /\ Commit(t)) =>
             /\ tx[t].start > issuedMax[tx[t].key[1]]
             /\ counter'[tx[t].key[1]] = <<tx[t].start + tx[t].cnt - 1>>]_vars

(* an edit drops a position whose number was issued by the counter of the key, and
   its allocation has returned a block above that number *)
C2_Witness ==
  \E t \in Txns :
    /\ tx[t].op = "put"
    /\ AllocDone(t)
    /\ \E n \in Range(pos[tx[t].id]) :
         /\ n \notin Range(tx[t].pl)
         /\ n <= issuedMax[tx[t].key[1]]
         /\ tx[t].start > n

(* C3 Serialized allocation: while a transaction holds the block allocate returned
   for a key, no other transaction holds the lock of that key and the committed
   counter row is still the one it locked; when the maximum it observed does not
   exceed the locked value v (no drift), its block is exactly v+1 .. v+count and it
   leaves v+count. So of two concurrent calls with counts m and n the one that locks
   first gets v+1 .. v+m and the second, once the first has committed, v+m+1 .. v+m+n. *)
C3_SerializedAllocation ==
  \A t \in Txns :
    AllocDone(t) =>
      /\ \A u \in Txns \ {t} : tx[u].lockKey # tx[t].lockKey
      /\ counter[tx[t].key[1]] = tx[t].pre
      /\ tx[t].mx <= CtrVal(tx[t].pre) =>
           /\ tx[t].start = CtrVal(tx[t].pre) + 1
           /\ tx[t].wCtr = <<CtrVal(tx[t].pre) + tx[t].cnt>>

(* the second of two concurrent calls: it waited for the lock, the first committed
   its block, and its own block starts right above the first one's *)
C3_Witness ==
  \E t \in Txns :
    /\ AllocDone(t)
    /\ tx[t].waited
    /\ tx[t].pre # <<>>
    /\ tx[t].mx <= tx[t].pre[1]
    /\ issuedMax[tx[t].key[1]] >= 1
    /\ tx[t].pre[1] = issuedMax[tx[t].key[1]]
    /\ tx[t].start = issuedMax[tx[t].key[1]] + 1

(* C4 Drift recovery (routes/reklamationen.js and allocateLfdNrBlock): with c the
   counter value of the key and f the maximum lfd_nr persisted for it, allocate
   returns start = max(c, f) + 1 and leaves the counter at max(c, f) + count. *)
C4_DriftRecovery ==
  [][\A t \in Txns :
       (version \in {"V110", "V112"} /\ AllocStep(t)) =>
          LET k == tx[t].key[1]
              base == Max2(CtrVal(counter[k]), MaxLfd(t, k))
          IN /\ tx'[t].start = base + 1
             /\ tx'[t].wCtr = <<base + tx[t].cnt>>]_vars

(* C5 Monotonic floor (V1.1.0, V1.1.1, V1.1.2): right after allocate the counter
   value of the key is at least every lfd_nr persisted for that key. *)
C5_MonotonicFloor ==
  [][\A t \in Txns :
       (version \in {"V110", "V111", "V112"} /\ AllocStep(t)) =>
          tx'[t].wCtr[1] >= MaxLfd(t, tx[t].key[1])]_vars

(* C6 Edit stability (V1.1.0, V1.1.2): in a committed edit that leaves the
   reklamation in its (filiale, year), a position that declares a number the
   reklamation had keeps it, and every other position gets a number above all the
   numbers the reklamation had and above all numbers issued for that key; so a
   dropped number (the 7 of {7, 8}) is not given to the new position. *)
C6_EditStability ==
  [][\A t \in Txns :
       (version \in {"V110", "V112"} /\ EditInPlace(t)) =>
          \A i \in DOMAIN tx[t].pl :
            IF tx[t].pl[i] \in Range(pos[tx[t].id])
              THEN pos'[tx[t].id][i] = tx[t].pl[i]
              ELSE /\ pos'[tx[t].id][i] > SetMax(Range(pos[tx[t].id]))
                   /\ pos'[tx[t].id][i] > issuedMax[HdrKey(tx[t].id)]]_vars

(* C7 Rejection of foreign numbers (V1.1.0, V1.1.2, part_001): after a committed
   edit every position of the reklamation carries a number the reklamation had
   before the edit or a number of the block allocated in the edit. *)
C7_ForeignNumbersRejected ==
  [][\A t \in Txns :
       (version \in {"V110", "V112", "P001"} /\ tx[t].op = "put" /\ Commit(t)) =>
          \A i \in DOMAIN pos'[tx[t].id] :
            pos'[tx[t].id][i] \in Range(pos[tx[t].id]) \cup Block(t)]_vars

(* C8 Rollback atomicity: when a create or edit fails after allocate has returned,
   the ROLLBACK leaves the counter row of the key as the transaction found it (no
   row when the transaction created it), every other counter row, and all
   reklamationen and positions as they were. *)
C8_RollbackAtomicity ==
  [][\A t \in Txns :
       (AllocDone(t) /\ Fail(t)) =>
          /\ counter'[tx[t].key[1]] = tx[t].pre
          /\ counter' = counter
          /\ pos' = pos
          /\ rekla' = rekla]_vars

(* the last transaction that had a block of key k was rolled back, and the counter
   row of k has the value the last committed allocation left *)
C8_Witness ==
  \E k \in Keys :
    /\ rolledBack # <<>>
    /\ rolledBack[1] = k
    /\ counter[k] # <<>>
    /\ issuedMax[k] = counter[k][1]
    /\ \A t \in Txns : tx[t].pc = "idle"

(* C9 Per-key lock granularity: a transaction that is about to lock the counter row
   of its key, while another transaction holds the lock of a different key and nobody
   holds the lock of its own, can take its step (up to the bound of the counter). *)
C9_PerKeyLock ==
  \A t \in Txns, u \in Txns :
    (/\ u # t
     /\ tx[u].lockKey # <<>>
     /\ tx[t].key # <<>>
     /\ tx[u].lockKey # tx[t].key
     /\ \A w \in Txns \ {t} : tx[w].lockKey # tx[t].key) =>
       /\ (tx[t].pc = "alloc" => ENABLED AllocStart(t))
       /\ (tx[t].pc = "waitlock" /\ (version = "V112" \/ AllocResult(t).last <= MaxCtr)
             => ENABLED AllocLock(t))

(* two transactions hold the blocks of two different keys at the same time *)
C9_Witness ==
  \E t \in Txns, u \in Txns :
    /\ AllocDone(t)
    /\ AllocDone(u)
    /\ tx[t].lockKey # tx[u].lockKey

(* C10 Counter monotonicity and lifecycle: in every step a counter row that exists
   still exists afterwards with a value not below the old one, and the counter table
   changes only in the commit of a transaction that allocated, and then only in the
   row of its key. *)
C10_CounterLifecycle ==
  [][/\ \A k \in Keys :
          counter[k] # <<>> => (counter'[k] # <<>> /\ counter'[k][1] >= counter[k][1])
     /\ counter' # counter =>
          \E t \in Txns :
            /\ AllocDone(t)
            /\ Commit(t)
            /\ \A k \in Keys \ {tx[t].key[1]} : counter'[k] = counter[k]]_vars

(* a reklamation was created and deleted again; the counter row is still there *)
C10_Witness ==
  /\ \A i \in Ids : rekla[i] = <<>>
  /\ \A t \in Txns : tx[t].pc = "idle"
  /\ \E k \in Keys : counter[k] # <<>> /\ counter[k][1] >= 1 /\ issuedMax[k] = counter[k][1]

(* C11 Period from effective date (V1.1.0, V1.1.2): the block of a created
   reklamation with filiale f and datum in year j is allocated from the counter
   (f, j), whatever the year of the server clock, and its commit changes no other
   counter row. *)
C11_PeriodFromDatum ==
  [][\A t \in Txns :
       (version \in {"V110", "V112"} /\ tx[t].op = "post" /\ AllocDone(t) /\ Commit(t)) =>
          /\ tx[t].key[1] = <<tx[t].filiale, tx[t].jahr>>
          /\ \A k \in Keys \ {<<tx[t].filiale, tx[t].jahr>>} : counter'[k] = counter[k]]_vars

(* C12 Period fixed at first assignment (V1.1.2, part_001): a committed edit of a
   reklamation with positions that keeps the filiale, moves datum into another
   year and adds new positions takes
   their block from the counter of the (filiale, year) the reklamation had before
   the edit, and the kept positions carry their declared numbers. *)
C12_PeriodFixed ==
  [][\A t \in Txns :
       (/\ version \in {"V112", "P001"}
        /\ tx[t].op = "put"
        /\ AllocDone(t)
        /\ Commit(t)
        /\ pos[tx[t].id] # <<>>
        /\ HdrKey(tx[t].id)[1] = tx[t].filiale
        /\ HdrKey(tx[t].id)[2] # tx[t].jahr) =>
          /\ tx[t].key[1] = HdrKey(tx[t].id)
          /\ \A i \in DOMAIN tx[t].pl :
               tx[t].pl[i] # 0 => pos'[tx[t].id][i] = tx[t].pl[i]]_vars

(* the positions new are the complete result of transaction t: nothing for a
   delete, otherwise one position per proposed position, a kept one with its
   declared number and a new one with a number of the allocated block *)
CompleteResult(t, new) ==
  IF tx[t].op = "delete" THEN new = <<>>
  ELSE /\ Len(new) = Len(tx[t].pl)
       /\ \A i \in DOMAIN tx[t].pl :
            IF tx[t].pl[i] # 0 THEN new[i] = tx[t].pl[i] ELSE new[i] \in Block(t)

(* C13 Failure propagation: a failing transaction leaves all committed
   reklamationen, positions and counters as they are, and the committed positions
   of a reklamation change only in the commit of one transaction, from the complete
   set before it to the complete set it wrote (or to none, with the reklamation,
   in the single-statement delete); so a query of another session sees the set
   from before or the set from after, never part of one or a mix. *)
C13_NoPartialVisibility ==
  [][/\ \A t \in Txns : Fail(t) => (pos' = pos /\ rekla' = rekla /\ counter' = counter)
     /\ \A id \in Ids :
          pos'[id] # pos[id] =>
            \/ \E t \in Txns : tx[t].id = id /\ Commit(t) /\ CompleteResult(t, pos'[id])
            \/ (rekla'[id] = <<>> /\ pos'[id] = <<>>)]_vars

(* an edit has deleted the old positions and holds its new block, uncommitted; the
   committed positions are still the complete old set, which differs from the new *)
C13_Witness ==
  \E t \in Txns :
    /\ tx[t].op = "put"
    /\ AllocDone(t)
    /\ tx[t].wPos
    /\ pos[tx[t].id] # <<>>
    /\ AssignLfd(tx[t].pl, tx[t].existing, tx[t].start) # pos[tx[t].id]

(* C14 No null numbers: in every committed state every persisted position carries
   a number >= 1. *)
C14_NumbersPositive ==
  \A i \in Ids : \A a \in DOMAIN pos[i] : pos[i][a] >= 1

(* C15 Aborted allocations are not reused: while the last allocation that ended on
   key k was rolled back with the range s..e, no allocation for k returns a number
   of s..e. *)
C15_AbortedNotReused ==
  \A t \in Txns :
    (AllocDone(t) /\ rolledBack # <<>> /\ tx[t].key = <<rolledBack[1]>>) =>
       Block(t) \cap (rolledBack[2] .. rolledBack[3]) = {}

(* the arguments of the call of t are invalid: empty filiale, jahr outside
   2000..3000 or negative count *)
InvalidArgs(t) ==
  /\ tx[t].op = "alloc"
  /\ (tx[t].filiale = "" \/ tx[t].jahr < MinJahr \/ tx[t].jahr > MaxJahr \/ tx[t].cnt < 0)

(* C16 Invalid arguments are rejected: a call of allocate with an empty filiale, a
   jahr outside 2000..3000 or a negative count ends in the thrown error, and the
   call writes no counter row. *)
C16_InvalidRejected ==
  \A t \in Txns : InvalidArgs(t) => (tx[t].pc = "threw" /\ tx[t].wCtr = <<>>)

(* C17 count = 0 is a no-op: a create or edit whose count of new positions is 0 has
   the no-range value (no start), holds no counter lock and has written no counter
   row, whether or not the key has a row; its COMMIT leaves every counter row as it
   was. An edit in which every proposed position is retained is such a request. *)
C17_ZeroCountNoOp ==
  [][\A t \in Txns :
       (tx[t].op \in {"post", "put"} /\ tx[t].pc \notin {"idle", "read"} /\ tx[t].cnt = 0) =>
          /\ tx[t].pc = "commit"
          /\ tx[t].start = 0
          /\ tx[t].lockKey = <<>>
          /\ tx[t].wCtr = <<>>
          /\ Commit(t) => counter' = counter]_vars

(* an edit that retains all its positions, for a key without a counter row *)
C17_Witness ==
  \E t \in Txns :
    /\ tx[t].op = "put"
    /\ tx[t].pc = "commit"
    /\ tx[t].cnt = 0
    /\ Len(tx[t].pl) >= 1
    /\ counter[tx[t].key[1]] = <<>>

(* C18 Allocation failure is signalled: when the locking statement of allocate finds
   no counter row, the call ends in the thrown error and returns no start value. *)
C18_FailureSignalled ==
  [][\A t \in Txns : LockMiss(t) => (tx'[t].pc = "threw" /\ tx'[t].start = 0)]_vars

(* the call of t found no persisted number above the counter value it locked *)
NoDrift(t) == tx[t].mx <= CtrVal(tx[t].pre)

(* C19 Idempotent lazy creation: an allocation whose call began while the key had no
   committed counter row (it created the row, or it waited for the transaction that
   did) finds, absent drift, the one row of the key as the last commit left it and
   receives the range next to it: 1.. for the creator, and the numbers right after
   the committed ones for the call that waited; the row it writes holds the end of
   its range. *)
C19_LazyCreation ==
  \A t \in Txns :
    (AllocDone(t) /\ NoDrift(t) /\ (tx[t].fresh \/ tx[t].pre = <<>>)) =>
       /\ tx[t].pre = counter[tx[t].key[1]]
       /\ tx[t].start = CtrVal(tx[t].pre) + 1
       /\ Block(t) \cap (1 .. CtrVal(tx[t].pre)) = {}
       /\ tx[t].wCtr = <<tx[t].start + tx[t].cnt - 1>>
       /\ tx[t].pre # <<>> => issuedMax[tx[t].key[1]] = tx[t].pre[1]

(* the second of two concurrent first allocations has its range, next to the range
   the first one committed *)
C19_Witness ==
  \E t \in Txns :
    /\ AllocDone(t)
    /\ tx[t].fresh
    /\ tx[t].pre # <<>>
    /\ issuedMax[tx[t].key[1]] = tx[t].pre[1]
    /\ tx[t].start = tx[t].pre[1] + 1

(* the number of positions before the i-th that take a new number *)
NewBefore(pl, i) == Cardinality({j \in 1..(i - 1) : pl[j] = 0})

(* C20 Edit requests only the deficit: a committing edit has asked allocate for
   exactly as many numbers as its proposed list has new positions; the new positions
   get start, start + 1, .. in the order of the list, every retained position is
   persisted with its declared number, and absent drift the counter row ends exactly
   that many above the value the edit found (no counter row changes when nothing is
   new). *)
C20_EditDeficit ==
  [][\A t \in Txns :
       (tx[t].op = "put" /\ Commit(t)) =>
          LET pl == tx[t].pl
              k == Cardinality({i \in DOMAIN pl : pl[i] = 0})
              new == pos'[tx[t].id]
          IN /\ tx[t].cnt = k
             /\ AllocDone(t) <=> k > 0
             /\ Len(new) = Len(pl)
             /\ \A i \in DOMAIN pl :
                  new[i] = IF pl[i] # 0 THEN pl[i] ELSE tx[t].start + NewBefore(pl, i)
             /\ IF k = 0 THEN counter' = counter
                ELSE NoDrift(t) =>
                       counter' = [counter EXCEPT ![tx[t].key[1]] =
                                     <<CtrVal(tx[t].pre) + k>>]]_vars

(* an edit with a retained and, after it, a new position has its block *)
C20_Witness ==
  \E t \in Txns :
    /\ tx[t].op = "put"
    /\ AllocDone(t)
    /\ \E i, j \in DOMAIN tx[t].pl : i < j /\ tx[t].pl[i] # 0 /\ tx[t].pl[j] = 0

(* C21 Create assigns the block in order: a committing create with n >= 1 positions
   persists them with start, start + 1, .. start + n - 1 in the order of the
   submitted list, start being what its one allocate call returned, and leaves the
   counter row of its key at start + n - 1. *)
C21_CreateInOrder ==
  [][\A t \in Txns :
       (tx[t].op = "post" /\ tx[t].cnt >= 1 /\ Commit(t)) =>
          /\ AllocDone(t)
          /\ pos'[tx[t].id] = [i \in 1..tx[t].cnt |-> tx[t].start + i - 1]
          /\ counter'[tx[t].key[1]] = <<tx[t].start + tx[t].cnt - 1>>]_vars

(* a create with two or more positions has its block *)
C21_Witness ==
  \E t \in Txns : tx[t].op = "post" /\ AllocDone(t) /\ tx[t].cnt >= 2

(* the call of t is inside allocate: before or between its counter statements *)
InCall(t) == tx[t].pc \in {"alloc", "waitlock", "locked", "norow"}

(* the block the call of t would take lies above the bound of the counter *)
AtCounterBound(t) ==
  \/ tx[t].pc = "waitlock" /\ version # "V112" /\ AllocResult(t).last > MaxCtr
  \/ /\ tx[t].pc = "locked"
     /\ allocateLfdNrBlock(tx[t].wCtr[1], MaxLfd(t, tx[t].key[1]), tx[t].cnt).last > MaxCtr

(* C22 Blocking without starvation: a call takes the lock of its counter row, and
   writes the row, only in a step in which no other transaction holds that lock;
   a call never goes back to an earlier statement; and when every lock holder ends,
   every call inside allocate eventually has returned or failed (up to the bound of
   the counter). *)
C22_BlockingNoStarvation ==
  /\ [][\A t \in Txns :
          /\ (tx[t].pc # "idle" /\ tx'[t].pc # "idle" /\
                (tx'[t].lockKey # tx[t].lockKey \/ tx'[t].wCtr # tx[t].wCtr)) =>
               \A u \in Txns \ {t} : tx[u].lockKey # tx[t].key
          /\ (InCall(t) /\ tx'[t].pc # tx[t].pc) =>
               <<tx[t].pc, tx'[t].pc>> \in
                 {<<"alloc", "waitlock">>, <<"waitlock", "locked">>, <<"waitlock", "commit">>,
                  <<"waitlock", "norow">>, <<"locked", "commit">>, <<"norow", "commit">>,
                  <<"norow", "threw">>, <<"alloc", "idle">>, <<"waitlock", "idle">>,
                  <<"locked", "idle">>, <<"norow", "idle">>}]_vars
  /\ \A t \in Txns :
       InCall(t) ~> (tx[t].pc \in {"commit", "threw", "idle"} \/ AtCounterBound(t))

(* a call that found its counter row locked has returned a block *)
C22_Witness ==
  \E t \in Txns : tx[t].op = "alloc" /\ tx[t].waited /\ AllocDone(t) /\ tx[t].start >= 1

(* the numbers transaction t sees persisted under key k *)
OwnNumbers(t, k) ==
  UNION {Range(VisPos(t, i)) :
           i \in {j \in Ids : VisRekla(t, j) # <<>> /\
                              <<VisRekla(t, j)[1].filiale, VisRekla(t, j)[1].jahr>> = k}}

(* C23 Partition independence: the block allocate returns for key k is determined by
   the counter row of k and (in the variants with a floor) the numbers persisted
   under k alone, the row it writes is the row of k, and the end of the transaction,
   COMMIT or ROLLBACK, leaves the counter row of every other key as it was. *)
C23_PartitionIndependence ==
  [][\A t \in Txns :
       LET k == tx[t].key[1]
           own == SetMax(OwnNumbers(t, k))
           floor == IF version \in {"V110", "P001"} THEN 0
                    ELSE IF tx[t].snap # <<>> THEN tx[t].snap[1] ELSE own
           base == Max2(LockedValue(t), floor)
       IN /\ AllocStep(t) =>
               /\ tx'[t].start = base + 1
               /\ tx'[t].wCtr = <<base + tx[t].cnt>>
               /\ tx'[t].lockKey = <<k>>
          /\ AllocStart(t) =>
               \/ tx'[t].snap = <<own>> /\ tx'[t].wCtr = <<>>
               \/ tx'[t].wCtr = <<own>> /\ tx'[t].snap = <<>>
          /\ (Commit(t) \/ Fail(t)) =>
               \A k2 \in Keys : tx[t].key # <<k2>> => counter'[k2] = counter[k2]]_vars

(* a first block 1.. has been returned for one key while another key has a counter
   row and persisted numbers *)
C23_Witness ==
  \E t \in Txns, i \in Ids :
    /\ AllocDone(t)
    /\ tx[t].start = 1
    /\ rekla[i] # <<>>
    /\ pos[i] # <<>>
    /\ <<HdrKey(i)>> # tx[t].key
    /\ counter[HdrKey(i)] # <<>>

(* the numbers the edit of t retains *)
Retained(t) == {tx[t].pl[i] : i \in {j \in DOMAIN tx[t].pl : tx[t].pl[j] # 0}}

(* C24 Edit under drift: in V1.1.1 and V1.1.2 an edit that retains a number and
   has received a block for its new positions has no retained number in the block. *)
C24_EditUnderDrift ==
  \A t \in Txns :
    (version \in {"V111", "V112"} /\ tx[t].op = "put" /\ AllocDone(t)) =>
       Block(t) \cap Retained(t) = {}

(* C25 Distinct numbers within a submission after edit: the positions a committing
   edit persists carry pairwise distinct numbers. *)
C25_DistinctAfterEdit ==
  [][\A t \in Txns :
       (tx[t].op = "put" /\ Commit(t)) =>
          \A i, j \in DOMAIN pos'[tx[t].id] :
            i # j => pos'[tx[t].id][i] # pos'[tx[t].id][j]]_vars

(* C26 Edit that moves a submission: when a committing edit of V1.1.0 or V1.1.2
   changes the filiale (V1.1.2: or the year of datum) of its reklamation and retains
   numbers, no retained number is persisted by another reklamation of the
   destination key, and afterwards the counter of the destination key is not below
   any number persisted for that key. *)
C26_MoveKeepsUnique ==
  [][\A t \in Txns :
       LET dest == <<tx[t].filiale, tx[t].jahr>>
       IN (/\ version \in {"V110", "V112"}
           /\ tx[t].op = "put"
           /\ Commit(t)
           /\ HdrKey(tx[t].id) # dest
           /\ version = "V110" => HdrKey(tx[t].id)[2] = tx[t].jahr
           /\ Retained(t) # {}) =>
             /\ \A i \in Ids \ {tx[t].id} :
                  (rekla[i] # <<>> /\ HdrKey(i) = dest) => Range(pos[i]) \cap Retained(t) = {}
             /\ \A i \in Ids :
                  (rekla'[i] # <<>> /\ <<rekla'[i][1].filiale, rekla'[i][1].jahr>> = dest) =>
                     \A n \in Range(pos'[i]) : CtrVal(counter'[dest]) >= n]_vars

(* C27 Concurrent edits of one submission serialize: two edits of one reklamation
   are never past their header UPDATE at the same time; while an edit is past it, no
   other transaction changes the committed positions of the reklamation, so the
   existing numbers the edit reads are the ones the last commit left; and the
   positions its COMMIT leaves are exactly its own result. *)
C27_EditsSerialize ==
  [][/\ \A t, u \in Txns :
          (t # u /\ tx[t].op = "put" /\ tx[u].op = "put") => tx[t].id # tx[u].id
     /\ \A t \in Txns :
          /\ (tx[t].op = "put" /\ tx'[t].op = "put") => pos'[tx[t].id] = pos[tx[t].id]
          /\ (version # "P001" /\ PutRead(t, tx'[t].pl)) =>
                tx'[t].existing = Range(pos[tx[t].id])
          /\ (tx[t].op = "put" /\ Commit(t)) => CompleteResult(t, pos'[tx[t].id])]_vars

(* an edit is past its header UPDATE, and the header UPDATE of a second edit of the
   same reklamation, which the next free client would issue, has to wait *)
C27_Witness ==
  \E t \in Txns, u \in Txns :
    /\ tx[t].op = "put"
    /\ u # t
    /\ ENABLED Connect(u)
    /\ ~ENABLED PutBegin(u, tx[t].id, tx[t].filiale, tx[t].jahr)

(* the pending statement of transaction t waits for a row lock another transaction
   holds: the position rows (DELETE of the positions), the counter row (INSERT ..
   ON CONFLICT of an absent row, the locking statement) or the header row *)
Blocked(t) ==
  \/ tx[t].pc = "read" /\ version # "P001" /\ ~PosFree(t, tx[t].id)
  \/ tx[t].pc = "alloc" /\ counter[tx[t].key[1]] = <<>> /\ ~KeyFree(t, tx[t].key[1])
  \/ tx[t].pc = "waitlock" /\ ~KeyFree(t, tx[t].key[1])
  \/ tx[t].pc = "delhdr" /\ ~HdrFree(t, tx[t].id)
  \/ tx[t].pc = "commit" /\ version = "P001" /\ tx[t].op = "put" /\ ~PosFree(t, tx[t].id)

(* C28 No deadlock among creates and edits: creates and edits of distinct
   reklamationen are never all waiting for a lock of one another; the only
   counter row lock a transaction takes is the one of its key, and it keeps it until
   its COMMIT or ROLLBACK. *)
C28_NoDeadlockCreateEdit ==
  [][/\ \A t, u \in Txns :
          (/\ t # u
           /\ tx[t].op \in {"post", "put"}
           /\ tx[u].op \in {"post", "put"}
           /\ tx[t].id # tx[u].id) => ~(Blocked(t) /\ Blocked(u))
     /\ \A t \in Txns :
          /\ tx[t].lockKey # <<>> => tx[t].lockKey = tx[t].key
          /\ (tx[t].lockKey # <<>> /\ tx'[t].pc # "idle") => tx'[t].lockKey = tx[t].lockKey]_vars

(* a create or edit waits for the counter row that a create or edit of another
   reklamation has locked *)
C28_Witness ==
  \E t, u \in Txns :
    /\ t # u
    /\ tx[t].op \in {"post", "put"}
    /\ tx[u].op \in {"post", "put"}
    /\ tx[t].id # tx[u].id
    /\ Blocked(t)
    /\ tx[u].lockKey = tx[t].key

(* C29 No deadlock between edit and delete of the same submission: an edit and a
   delete of one reklamation are never both waiting for a row lock. *)
C29_NoDeadlockEditDelete ==
  \A t, u \in Txns :
    (tx[t].op = "put" /\ tx[u].op = "delete" /\ tx[t].id = tx[u].id) =>
       ~(Blocked(t) /\ Blocked(u))

(* the request of t is answered with 500 in this step *)
Answers500(t) == Fail(t) \/ CommitThenFail(t)

(* C30 A reported failure means nothing was persisted: a step in which a create or
   edit answers 500 leaves the committed counter rows, headers and positions as they
   were before the request wrote anything. *)
C30_FailureNothingPersisted ==
  [][\A t \in Txns :
       (tx[t].op \in {"post", "put"} /\ Answers500(t)) =>
          (counter' = counter /\ rekla' = rekla /\ pos' = pos)]_vars

====
